---------------------------- MODULE Spec2Model ----------------------------
(***************************************************************************)
(* Desktop-doc compositor/player (src/unnamed/part_000, the current        *)
(* revision of src/src/App.jsx): library, timeline, playback clock and     *)
(* recording state of the DesktopDocWorkshopApp component.                 *)
(*                                                                         *)
(* Time is counted in milliseconds: the source's seconds are multiplied by *)
(* 1000, so the playhead epsilon 1e-3 s is one unit, the slider step 0.05  *)
(* s is 50 units and the default image duration 4 s is 4000 units.         *)
(* Indices returned by activeIndexAt are the source's 0-based indices;     *)
(* entry k of the JavaScript array is timeline[k + 1] here.                *)
(***************************************************************************)
EXTENDS Integers, Sequences, FiniteSets, TLC

VARIABLES
    library,      \* useState([]): sequence of library items
    timeline,     \* useState([]): sequence of timeline entries
    isPlaying,    \* useState(false)
    progress,     \* useState(0), in ms
    recState,     \* useState("idle")
    draggedItem,  \* useState(null): id of the entry being dragged, 0 = null
    nextClipId,   \* number of timeline entry ids handed out so far
    rafPending,   \* requestAnimationFrame callbacks not yet run or cancelled
    rafRef,       \* rafRef.current: id of the last requested callback, 0 = null
    recorders,    \* every MediaRecorder created so far, in creation order
    mediaRecorderRef,   \* mediaRecorderRef.current: index into recorders, 0 = null
    recordedChunks,     \* recordedChunksRef.current
    artifacts,    \* downloads triggered by mr.onstop, in order
    lastOp,       \* the last handler, if it was a transport control, moved the
                  \* playhead backwards or stopped playback, with the state it
                  \* started from
    probe,        \* last direct application of totalDuration / activeIndexAt
    lastRender,   \* t: the time of the last renderAtTime call; n: how often
                  \* its caller (the tick or the render-when-paused effect)
                  \* rendered that time in the step that made the call
    imageLoader,  \* cache: imageElementsRef.current, source -> Image (0 =
                  \* absent); elements: every Image created by loadImage, in
                  \* creation order; promises: the promises loadImage returned
    ingests       \* the onFiles calls so far, in call order: the files of the
                  \* call, the position of its loop, its local items array

vars == <<library, timeline, isPlaying, progress, recState, draggedItem,
          nextClipId, rafPending, rafRef, lastRender, recorders, mediaRecorderRef,
          recordedChunks, artifacts, lastOp, probe, imageLoader, ingests>>

----------------------------------------------------------------------------
(* Units and program constants *)

\* 1e-3 s, the playhead epsilon of the rewind effect and the play button
Eps == 1

\* addToTimeline: duration: 4
DefaultDuration == 4000

\* clip.duration || 3
FallbackDuration == 3000

\* duration slider: min={0.05} max={4} step={0.05}
MinDuration == 50

MaxDuration == 4000

SliderStep == 50

\* drawClip = async (clipIndex, alpha = 1): full opacity, in thousandths
AlphaOne == 1000

\* ctx.globalAlpha = 0.9 of the title overlay
TitleAlpha == 900

----------------------------------------------------------------------------
(* Bounds of the model *)

\* entries on the timeline at once
MaxClips == 2

\* timeline entry ids handed out over a run
MaxClipIds == MaxClips

\* recordings started over a run
MaxRecordings == 2

\* recording passes in the runs of the whole component (the recording runs
\* go up to MaxRecordings)
MaxPasses == 1

\* entries on the timeline of the reordering scenario
MaxDropLen == 4

\* entries on the timelines that are rendered directly
MaxRenderLen == 2

\* image durations on the timelines that are rendered directly
RenderDurations == {2000, 4000}

\* global times rendered directly
RenderTimes == {0, 500, 999, 1000, 2000, 2500, 2999, 3000, 4000, 4500, 5000,
                7000, 9999, 10000}

\* settings of the crossfade slider (min 0, max 3, step 0.1)
CrossfadeValues == {0, 1000, 3000}

\* local times at which the blend factor is compared
LocalTimes == {0, 1, 250, 500, 999, 1000, 1001, 2999, 3000, 5000}

\* the files the user has at hand; each is ingested at most once
Files == {[type |-> "image", duration |-> 0], [type |-> "video", duration |-> 6000]}

\* raw slider values of a duration edit
RawDurations == {-1000, 10000}

\* time between the playback effect's clock reading and the refresh callback
FrameDeltas == {3999, 4000}

\* captions typed into an entry
Captions == {"", "a"}

\* library items of directly probed inputs
MaxLib == 2

\* onFiles calls in flight and files per call of the ingestion runs
MaxIngests == 2
MaxBatchLen == 2

\* the files dropped in the ingestion runs: ok tells whether the decode or
\* the probe of the file succeeds
IngestFiles ==
    {[type |-> "image", ok |-> TRUE, duration |-> 0],
     [type |-> "image", ok |-> FALSE, duration |-> 0],
     [type |-> "video", ok |-> TRUE, duration |-> 6000],
     [type |-> "video", ok |-> FALSE, duration |-> 0],
     [type |-> "text", ok |-> TRUE, duration |-> 0]}

\* longest timeline of the reorder runs
MaxReorderLen == 3

\* image sources and loadImage calls of the image loading runs
MaxSources == 2
MaxLoads == 3

\* intrinsic durations of directly probed videos (0: v.duration was NaN)
VideoDurations == {0, 6000}

\* image durations of directly probed timelines
FnDurations == {2000, 3000, 4000}

\* global times at which activeIndexAt is probed directly
FnTimes == {-1000, 0, 1999, 2000, 4000, 5000, 6000, 9999, 10000, 12000}

----------------------------------------------------------------------------
(* Data *)

NoLib == [id |-> 0, type |-> "none", duration |-> 0]

\* lastOp when the last handler is not recorded
NoOp == [name |-> "other", progress |-> 0, isPlaying |-> FALSE, recState |-> "idle"]

ImageItem(id) == [id |-> id, type |-> "image", duration |-> 0]

VideoItem(id, d) == [id |-> id, type |-> "video", duration |-> d]

Clip(id, libId, d, c) == [id |-> id, libId |-> libId, duration |-> d, caption |-> c]

\* library.find((l) => l.id === libId); NoLib stands for undefined
FindLib(lib, libId) ==
    IF \E i \in 1..Len(lib) : lib[i].id = libId
    THEN lib[CHOOSE i \in 1..Len(lib) :
                 lib[i].id = libId /\ \A j \in 1..(i - 1) : lib[j].id # libId]
    ELSE NoLib

\* x || y on numbers
OrElse(x, y) == IF x = 0 THEN y ELSE x

Min(a, b) == IF a <= b THEN a ELSE b

Max(a, b) == IF a >= b THEN a ELSE b

----------------------------------------------------------------------------
(* Derived values *)

\* the reducer of totalDuration: one step of timeline.reduce
TotalStepVideoOwn(acc, clip, lib) ==
    LET l == FindLib(lib, clip.libId)
    IN  IF l = NoLib THEN acc
        ELSE acc + OrElse(clip.duration, FallbackDuration)

TotalStep(acc, clip, lib) ==
    LET l == FindLib(lib, clip.libId)
    IN  IF l = NoLib THEN acc
        ELSE IF l.type = "video" THEN acc + OrElse(l.duration, 0)
        ELSE acc + OrElse(clip.duration, FallbackDuration)

RECURSIVE TotalReduce(_, _, _, _)
TotalReduce(tl, lib, i, acc) ==
    IF i > Len(tl) THEN acc
    ELSE TotalReduce(tl, lib, i + 1, TotalStep(acc, tl[i], lib))

TotalOf(tl, lib) == TotalReduce(tl, lib, 1, 0)

totalDuration == TotalOf(timeline, library)

\* const d = lib?.type === "video" ? lib.duration || 0 : clip.duration || 3
ClipSpan(clip, lib) ==
    LET l == FindLib(lib, clip.libId)
    IN  IF l.type = "video" THEN OrElse(l.duration, 0)
        ELSE OrElse(clip.duration, FallbackDuration)

NotFound == [index |-> -1, localTime |-> 0, duration |-> 0]

\* the loop test of activeIndexAt
InSpan(t, acc, d) == t < acc + d

\* the for loop of activeIndexAt from JavaScript index i - 1 on
RECURSIVE ActiveFrom(_, _, _, _, _)
ActiveFrom(tl, lib, t, i, acc) ==
    IF i > Len(tl) THEN NotFound
    ELSE LET d == ClipSpan(tl[i], lib)
         IN  IF InSpan(t, acc, d)
             THEN [index |-> i - 1, localTime |-> t - acc, duration |-> d]
             ELSE ActiveFrom(tl, lib, t, i + 1, acc + d)

ActiveOf(tl, lib, t) == ActiveFrom(tl, lib, t, 1, 0)

activeIndexAt(t) == ActiveOf(timeline, library, t)

----------------------------------------------------------------------------
(* Frame compositor: renderAtTime and the canvas operations it causes.     *)
(* Opacities are counted in thousandths. drawClip is an async function:    *)
(* its body runs up to the first await inside the call, the rest runs as   *)
(* jobs of the microtask queue after renderAtTime has returned. All jobs   *)
(* share the one 2d context, its globalAlpha and its save/restore stack.   *)
(* Images are in the cache of loadImage (onFiles awaited their decode), so *)
(* the promise drawMedia awaits is already resolved.                       *)

\* localTime < crossfade && index > 0
IsFadingAlways(index, localTime, cf) == localTime < cf

IsFading(index, localTime, cf) == localTime < cf /\ index > 0

\* Math.min(1, localTime / crossfade)
BlendFactorUnpinned(localTime, cf) == (localTime * AlphaOne) \div cf

BlendFactor(localTime, cf) == Min(AlphaOne, (localTime * AlphaOne) \div cf)

\* the drawClip calls of one frame, in call order
DrawCalls(index, localTime, cf) ==
    IF IsFading(index, localTime, cf)
    THEN LET f == BlendFactor(localTime, cf)
         IN  <<[clipIndex |-> index - 1, alpha |-> AlphaOne - f],
               [clipIndex |-> index, alpha |-> f]>>
    ELSE <<[clipIndex |-> index, alpha |-> AlphaOne]>>

\* the 2d context after ctx.clearRect: globalAlpha 1, empty save stack,
\* nothing painted, no job queued
ClearedCanvas == [alpha |-> AlphaOne, stack |-> <<>>, ops |-> <<>>, queue |-> <<>>]

Paint(c, what, clipIndex) ==
    [c EXCEPT !.ops = Append(@, [op |-> what, clipIndex |-> clipIndex,
                                 alpha |-> c.alpha])]

\* drawClip(clipIndex, alpha) up to its first suspension: ctx.save(), the
\* assignment of globalAlpha, and drawMedia up to its own first await. The
\* video branch of drawMedia has no await and paints at once if the element
\* is ready; the image branch suspends on loadImage.
DrawClipCall(c, tl, lib, call, ready) ==
    LET l == IF call.clipIndex + 1 \in 1..Len(tl)
             THEN FindLib(lib, tl[call.clipIndex + 1].libId)
             ELSE NoLib            \* timeline[clipIndex] is undefined: it throws
    IN  IF l = NoLib THEN c
        ELSE LET saved == [c EXCEPT !.stack = Append(@, c.alpha),
                                    !.alpha = call.alpha]
             IN  IF l.type = "video"
                 THEN LET drawn == IF ready
                                   THEN Paint(saved, "media", call.clipIndex)
                                   ELSE saved
                      IN  [drawn EXCEPT !.queue =
                              Append(@, [job |-> "drawClip",
                                         clipIndex |-> call.clipIndex])]
                 ELSE [saved EXCEPT !.queue =
                          Append(@, [job |-> "drawMedia",
                                     clipIndex |-> call.clipIndex])]

RECURSIVE DrawClipCalls(_, _, _, _, _)
DrawClipCalls(c, tl, lib, calls, ready) ==
    IF calls = <<>> THEN c
    ELSE DrawClipCalls(DrawClipCall(c, tl, lib, Head(calls), ready),
                       tl, lib, Tail(calls), ready)

\* if (showTitle && globalTitle): save, globalAlpha = 0.9, drawTitle, restore
DrawTitle(c, titled) ==
    IF titled
    THEN [c EXCEPT !.ops = Append(@, [op |-> "title", clipIndex |-> -1,
                                      alpha |-> TitleAlpha])]
    ELSE c

\* one job of the microtask queue: the rest of drawMedia for an image
\* (ctx.drawImage, after which the awaiting drawClip is queued), or the rest
\* of drawClip (the caption if there is one, then ctx.restore())
RunJob(c, tl, j) ==
    LET rest == [c EXCEPT !.queue = Tail(@)]
    IN  IF j.job = "drawMedia"
        THEN [Paint(rest, "media", j.clipIndex) EXCEPT !.queue =
                 Append(@, [job |-> "drawClip", clipIndex |-> j.clipIndex])]
        ELSE LET captioned == IF tl[j.clipIndex + 1].caption # ""
                              THEN Paint(rest, "caption", j.clipIndex)
                              ELSE rest
             IN  [captioned EXCEPT !.alpha = c.stack[Len(c.stack)],
                                   !.stack = SubSeq(@, 1, Len(@) - 1)]

RECURSIVE Drain(_, _)
Drain(c, tl) ==
    IF c.queue = <<>> THEN c ELSE Drain(RunJob(c, tl, Head(c.queue)), tl)

NoFrame ==
    [index |-> -1, localTime |-> 0, fading |-> FALSE, calls |-> <<>>, ops |-> <<>>]

\* renderAtTime(t) with its microtasks run to the end: the active entry,
\* whether the frame fades, the drawClip calls and the paint operations in
\* the order they reached the canvas
RenderFrame(tl, lib, t, cf, titled, ready) ==
    IF Len(tl) = 0 THEN NoFrame
    ELSE LET a == ActiveOf(tl, lib, t)
         IN  IF a.index < 0 THEN NoFrame
             ELSE LET calls == DrawCalls(a.index, a.localTime, cf)
                      sync  == DrawTitle(DrawClipCalls(ClearedCanvas, tl, lib,
                                                       calls, ready), titled)
                  IN  [index |-> a.index, localTime |-> a.localTime,
                       fading |-> IsFading(a.index, a.localTime, cf),
                       calls |-> calls, ops |-> Drain(sync, tl).ops]

----------------------------------------------------------------------------
(* Image loading *)

\* the source references (object URLs) loadImage is called with
Sources == 1..MaxSources

NoLoads ==
    [cache |-> [src \in Sources |-> 0], elements |-> <<>>, promises |-> <<>>]

\* imageElementsRef.current.has(src)
Cached(ld, src) == ld.cache[src] # 0

\* loadImage(src) up to the return of the promise: a cache hit resolves the
\* promise with the cached Image; a miss creates a new Image, whose decode
\* starts with the assignment of img.src
LoadImageCall(ld, src) ==
    IF Cached(ld, src)
    THEN [ld EXCEPT !.promises =
             Append(@, [src |-> src, img |-> ld.cache[src], state |-> "resolved"])]
    ELSE [ld EXCEPT !.elements = Append(@, [src |-> src, state |-> "decoding"]),
                    !.promises =
             Append(@, [src |-> src, img |-> Len(ld.elements) + 1,
                        state |-> "pending"])]

\* the promise created together with Image i settles
Settle(ps, i, state) ==
    [k \in 1..Len(ps) |->
        IF ps[k].img = i /\ ps[k].state = "pending"
        THEN [ps[k] EXCEPT !.state = state] ELSE ps[k]]

\* img.onload of Image i: imageElementsRef.current.set(src, img); resolve(img)
ImageOnLoad(ld, i) ==
    [cache    |-> [ld.cache EXCEPT ![ld.elements[i].src] = i],
     elements |-> [ld.elements EXCEPT ![i].state = "loaded"],
     promises |-> Settle(ld.promises, i, "resolved")]

\* img.onerror of Image i: reject(error)
ImageOnError(ld, i) ==
    [cache    |-> ld.cache,
     elements |-> [ld.elements EXCEPT ![i].state = "failed"],
     promises |-> Settle(ld.promises, i, "rejected")]

loaderFixed ==
    <<library, timeline, isPlaying, progress, recState, draggedItem, nextClipId,
      rafPending, rafRef, lastRender, recorders, mediaRecorderRef, recordedChunks,
      artifacts, lastOp, probe, ingests>>

loadImage(src) ==
    /\ Len(imageLoader.promises) < MaxLoads
    /\ imageLoader' = LoadImageCall(imageLoader, src)
    /\ UNCHANGED loaderFixed

Decoding == {i \in 1..Len(imageLoader.elements) :
                imageLoader.elements[i].state = "decoding"}

onload(i) ==
    /\ i \in Decoding
    /\ imageLoader' = ImageOnLoad(imageLoader, i)
    /\ UNCHANGED loaderFixed

onerror(i) ==
    /\ i \in Decoding
    /\ imageLoader' = ImageOnError(imageLoader, i)
    /\ UNCHANGED loaderFixed

----------------------------------------------------------------------------
(* Direct application of the two derived functions to arbitrary inputs *)

NoProbe == [applied |-> FALSE, t |-> 0, total |-> 0, res |-> NotFound]

RECURSIVE SeqsUpTo(_, _)
SeqsUpTo(S, n) ==
    IF n = 0 THEN {<<>>}
    ELSE LET shorter == SeqsUpTo(S, n - 1)
         IN  shorter \cup {Append(s, x) : s \in {q \in shorter : Len(q) = n - 1}, x \in S}

ItemKinds == {[type |-> "image", duration |-> 0]}
             \cup {[type |-> "video", duration |-> d] : d \in VideoDurations}

\* libraries as ingestion builds them: ids are unique, here the position
FnLibraries ==
    {[i \in 1..Len(ks) |-> [id |-> i, type |-> ks[i].type, duration |-> ks[i].duration]] :
        ks \in SeqsUpTo(ItemKinds, MaxLib)}

FnEntries == {[libId |-> l, duration |-> d] :
                 l \in 1..(MaxLib + 1), d \in FnDurations}

FnTimelines ==
    {[i \in 1..Len(es) |-> Clip(i, es[i].libId, es[i].duration, "")] :
        es \in SeqsUpTo(FnEntries, MaxClips)}

InitFn ==
    /\ library \in FnLibraries
    /\ timeline \in FnTimelines
    /\ isPlaying = FALSE
    /\ progress = 0
    /\ recState = "idle"
    /\ draggedItem = 0
    /\ nextClipId = Len(timeline)
    /\ rafPending = {}
    /\ rafRef = 0
    /\ recorders = <<>>
    /\ mediaRecorderRef = 0
    /\ recordedChunks = <<>>
    /\ artifacts = <<>>
    /\ lastOp = NoOp
    /\ probe = NoProbe
    /\ lastRender = [t |-> 0, n |-> 1]
    /\ imageLoader = NoLoads
    /\ ingests = <<>>

ProbeAt(t) ==
    /\ ~probe.applied
    /\ probe' = [applied |-> TRUE, t |-> t, total |-> totalDuration,
                 res |-> activeIndexAt(t)]
    /\ UNCHANGED <<library, timeline, isPlaying, progress, recState, draggedItem,
                   nextClipId, rafPending, rafRef, lastRender, recorders, mediaRecorderRef,
                   recordedChunks, artifacts, lastOp, imageLoader, ingests>>

NextFn == \E t \in FnTimes : ProbeAt(t)

SpecFn == InitFn /\ [][NextFn]_vars

----------------------------------------------------------------------------
(* React effects.  A handler's state updates are committed in one render;  *)
(* the effects whose dependencies changed then run in source order, and an *)
(* effect's own state update causes one more render.  Commit is that whole *)
(* sequence, run to quiescence after the handler.                          *)

\* (p) => (p >= Math.max(0, totalDuration - 1e-3) ? 0 : p)
RewindNever(p, total) == p

Rewind(p, total) == IF p >= Max(0, total - Eps) THEN 0 ELSE p

RafIds(pend) == {cb.id : cb \in pend}

\* the id requestAnimationFrame returns: one no pending callback carries
FreshRaf(pend) ==
    CHOOSE n \in 1..(Cardinality(pend) + 1) :
        n \notin RafIds(pend) /\ \A m \in 1..(n - 1) : m \in RafIds(pend)

\* rafRef.current = requestAnimationFrame(tick), tick closed over startedAt
\* and totalDuration
RequestFrame(r, startedAt, total) ==
    LET id == FreshRaf(r.pend)
    IN  [pend |-> r.pend \cup {[id |-> id, startedAt |-> startedAt, total |-> total]},
         ref |-> id]

\* if (rafRef.current) cancelAnimationFrame(rafRef.current)
CancelFrameSkipped(r) == r

CancelFrame(r) == [pend |-> {cb \in r.pend : cb.id # r.ref}, ref |-> r.ref]

\* body of the playback effect; the clock reading performance.now() of the
\* effect is the origin of the callback's time, so startedAt = 0 - progress
PlaybackEffectFromZero(r, playing, prog, total) ==
    IF ~playing THEN r ELSE RequestFrame(r, 0, total)

PlaybackEffect(r, playing, prog, total) ==
    IF ~playing THEN r ELSE RequestFrame(r, 0 - prog, total)

\* the effect's cleanup exists only if its last run was with isPlaying true
PlaybackRerun(r, wasPlaying, playing, prog, total) ==
    PlaybackEffect(IF wasPlaying THEN CancelFrame(r) ELSE r, playing, prog, total)

\* the render-when-paused effect of one render pass: deps [progress,
\* renderAtTime, isPlaying]
PausedRenderSkipped(changed, playing, prog) == <<>>

PausedRender(changed, playing, prog) ==
    IF changed /\ ~playing THEN <<prog>> ELSE <<>>

\* the state updates of a handler that called renderAtTime for the times pre
\* itself, followed by the effects of the render passes they cause
CommitAfter(pre, tl, lib, playing, prog, timelineSet, pend, ref) ==
    LET total   == TotalOf(tl, lib)
        rewinds == timelineSet \/ total # totalDuration
        deps    == \/ playing # isPlaying
                   \/ total # totalDuration
                   \/ timelineSet \/ lib # library      \* renderAtTime
                   \/ prog # progress
        prog2   == IF rewinds THEN Rewind(prog, total) ELSE prog
        r0      == [pend |-> pend, ref |-> ref]
        r1      == IF deps THEN PlaybackRerun(r0, isPlaying, playing, prog, total) ELSE r0
        r2      == IF prog2 # prog THEN PlaybackRerun(r1, playing, playing, prog2, total)
                   ELSE r1
        paused  == PausedRender(deps, playing, prog)
                   \o PausedRender(prog2 # prog, playing, prog2)
        calls   == pre \o paused
    IN  /\ timeline' = tl
        /\ library' = lib
        /\ isPlaying' = playing
        /\ progress' = prog2
        /\ rafPending' = r2.pend
        /\ rafRef' = r2.ref
        /\ lastRender' =
              IF calls = <<>> THEN lastRender
              ELSE LET by == IF paused = <<>> THEN pre ELSE paused
                   IN  [t |-> calls[Len(calls)],
                        n |-> Cardinality({i \in 1..Len(by) :
                                              by[i] = calls[Len(calls)]})]

Commit(tl, lib, playing, prog, timelineSet, pend, ref) ==
    CommitAfter(<<>>, tl, lib, playing, prog, timelineSet, pend, ref)

\* the transport controls: play/pause and record/stop buttons
Transport == {"play", "pause", "startRecording", "stopRecording"}

\* history of the step being taken (read after progress' and isPlaying' are
\* set): kept for a transport control, a step that moved the playhead
\* backwards and a step that stopped playback
Op(name) ==
    IF name \in Transport \/ progress' < progress \/ (isPlaying /\ ~isPlaying')
    THEN [name |-> name, progress |-> progress, isPlaying |-> isPlaying,
          recState |-> recState]
    ELSE NoOp

\* currentTimeline.findIndex((clip) => clip.id === id), 0-based, -1 if absent
FindIndex(tl, id) ==
    IF \E i \in 1..Len(tl) : tl[i].id = id
    THEN (CHOOSE i \in 1..Len(tl) :
              tl[i].id = id /\ \A j \in 1..(i - 1) : tl[j].id # id) - 1
    ELSE -1

\* the record of a row drop: the dragged entry's index, the target index and
\* the order of the entry ids before the drop
DropOp(dropIndex) ==
    [name |-> "rowDrop", from |-> FindIndex(timeline, draggedItem),
     to |-> dropIndex, before |-> [i \in 1..Len(timeline) |-> timeline[i].id]]

recVars == <<recState, recorders, mediaRecorderRef, recordedChunks, artifacts>>

----------------------------------------------------------------------------
(* Ingestion and timeline handlers *)

\* onFiles: the items of the batch that decoded or probed, appended at once
OnFiles(kinds) ==
    /\ draggedItem = 0
    /\ Len(kinds) >= 1
    /\ \A i, j \in 1..Len(kinds) : i # j => kinds[i] # kinds[j]
    /\ \A i \in 1..Len(kinds), j \in 1..Len(library) :
           kinds[i] # [type |-> library[j].type, duration |-> library[j].duration]
    /\ Commit(timeline,
              library \o [i \in 1..Len(kinds) |->
                            [id |-> Len(library) + i, type |-> kinds[i].type,
                             duration |-> kinds[i].duration]],
              isPlaying, progress, FALSE, rafPending, rafRef)
    /\ UNCHANGED <<recVars, draggedItem, nextClipId, probe, imageLoader, ingests>>
    /\ lastOp' = Op("onFiles")

\* One onFiles call step by step.  The loop suspends at await loadImage(url)
\* or await probeVideo(url) of each image or video file; a file of another
\* type is passed over without suspending.

\* the first file at or after position k the loop suspends on
NextAwait(files, k) ==
    LET waits == {j \in k..Len(files) : files[j].type \in {"image", "video"}}
    IN  IF waits = {} THEN Len(files) + 1
        ELSE CHOOSE j \in waits : \A m \in waits : j <= m

\* crypto.randomUUID() of file i of call b
ItemId(b, i) == (b - 1) * MaxBatchLen + i

\* what the loop body pushes to items once the awaited promise settles: the
\* item if it resolved, nothing if it rejected (the catch block logs)
FileResultUnchecked(b, i, file) ==
    <<[id |-> ItemId(b, i), type |-> file.type, duration |-> file.duration]>>

FileResult(b, i, file) ==
    IF file.ok
    THEN <<[id |-> ItemId(b, i), type |-> file.type, duration |-> file.duration]>>
    ELSE <<>>

\* onFiles(files) up to its first await
onFilesCall(files) ==
    /\ Len(ingests) < MaxIngests
    /\ ingests' = Append(ingests, [files |-> files, next |-> NextAwait(files, 1),
                                   items |-> <<>>])
    /\ UNCHANGED <<library, timeline, isPlaying, progress, recState, draggedItem,
                   nextClipId, rafPending, rafRef, lastRender, recorders,
                   mediaRecorderRef, recordedChunks, artifacts, lastOp, probe,
                   imageLoader>>

\* the promise call b awaits settles: the loop runs on to its next await, or
\* to its end and then to setLibrary((prev) => [...prev, ...items]) if
\* items.length > 0
FileSettles(b) ==
    /\ b \in 1..Len(ingests)
    /\ ingests[b].next <= Len(ingests[b].files)
    /\ LET g     == ingests[b]
           items == g.items \o FileResult(b, g.next, g.files[g.next])
           next  == NextAwait(g.files, g.next + 1)
       IN  /\ ingests' = [ingests EXCEPT ![b] = [g EXCEPT !.items = items,
                                                          !.next = next]]
           /\ IF next > Len(g.files) /\ items # <<>>
              THEN Commit(timeline, library \o items, isPlaying, progress, FALSE,
                          rafPending, rafRef)
              ELSE UNCHANGED <<library, timeline, isPlaying, progress, rafPending,
                               rafRef, lastRender>>
    /\ UNCHANGED <<recVars, draggedItem, nextClipId, probe, imageLoader>>
    /\ lastOp' = Op("onFiles")

addToTimeline(libId) ==
    /\ draggedItem = 0
    /\ Len(timeline) < MaxClips
    /\ nextClipId < MaxClipIds
    /\ nextClipId' = nextClipId + 1
    /\ Commit(Append(timeline, Clip(nextClipId + 1, libId, DefaultDuration, "")),
              library, isPlaying, progress, TRUE, rafPending, rafRef)
    /\ UNCHANGED <<recVars, draggedItem, probe, imageLoader, ingests>>
    /\ lastOp' = Op("addToTimeline")

removeFromTimeline(clipId) ==
    /\ draggedItem = 0
    /\ Commit(SelectSeq(timeline, LAMBDA c : c.id # clipId),
              library, isPlaying, progress, TRUE, rafPending, rafRef)
    /\ UNCHANGED <<recVars, draggedItem, nextClipId, probe, imageLoader, ingests>>
    /\ lastOp' = Op("removeFromTimeline")

\* Math.round(v * 20) / 20 on milliseconds
RoundToStep(v) == ((2 * v + SliderStep) \div (2 * SliderStep)) * SliderStep

\* Math.min(4, Math.max(0.05, Math.round(v * 20) / 20))
ClampDurationUpperOnly(v) == Min(MaxDuration, RoundToStep(v))

ClampDuration(v) == Min(MaxDuration, Max(MinDuration, RoundToStep(v)))

\* onValueChange of the duration slider of entry clipId
SetDuration(clipId, v) ==
    /\ draggedItem = 0
    /\ Commit([i \in 1..Len(timeline) |->
                  IF timeline[i].id = clipId
                  THEN [timeline[i] EXCEPT !.duration = ClampDuration(v)]
                  ELSE timeline[i]],
              library, isPlaying, progress, TRUE, rafPending, rafRef)
    /\ UNCHANGED <<recVars, draggedItem, nextClipId, probe, imageLoader, ingests>>
    /\ lastOp' = Op("setDuration")

\* onChange of the caption input of entry clipId
SetCaption(clipId, text) ==
    /\ draggedItem = 0
    /\ Commit([i \in 1..Len(timeline) |->
                  IF timeline[i].id = clipId
                  THEN [timeline[i] EXCEPT !.caption = text]
                  ELSE timeline[i]],
              library, isPlaying, progress, TRUE, rafPending, rafRef)
    /\ UNCHANGED <<recVars, draggedItem, nextClipId, probe, imageLoader, ingests>>
    /\ lastOp' = Op("setCaption")

handleTimelineDragStart(clipId) ==
    /\ draggedItem = 0
    /\ draggedItem' = clipId
    /\ UNCHANGED <<library, timeline, isPlaying, progress, rafPending, rafRef, lastRender,
                   recVars, nextClipId, probe, imageLoader, ingests>>
    /\ lastOp' = Op("dragStart")

handleTimelineDragEnd ==
    /\ draggedItem # 0
    /\ draggedItem' = 0
    /\ UNCHANGED <<library, timeline, isPlaying, progress, rafPending, rafRef, lastRender,
                   recVars, nextClipId, probe, imageLoader, ingests>>
    /\ lastOp' = Op("dragEnd")

\* a.splice(k, 1) on a copy: the array without its element at 0-based k
SpliceOutKept(tl, k) == tl

SpliceOut(tl, k) == [i \in 1..(Len(tl) - 1) |-> IF i <= k THEN tl[i] ELSE tl[i + 1]]

\* a.splice(k, 0, x): x inserted at 0-based k (k clamped to the length)
SpliceIn(tl, k, x) ==
    LET at == Min(k, Len(tl))
    IN  [i \in 1..(Len(tl) + 1) |->
            IF i <= at THEN tl[i] ELSE IF i = at + 1 THEN x ELSE tl[i - 1]]

\* the updater handleTimelineRowDrop passes to setTimeline
RowDropUpdateOwnSlotOnly(tl, dragged, dropIndex) ==
    LET draggedIndex == FindIndex(tl, dragged)
    IN  IF draggedIndex = -1 \/ draggedIndex = dropIndex THEN tl
        ELSE SpliceIn(SpliceOut(tl, draggedIndex), dropIndex, tl[draggedIndex + 1])

RowDropUpdateUnadjusted(tl, dragged, dropIndex) ==
    LET draggedIndex == FindIndex(tl, dragged)
    IN  IF draggedIndex = -1 THEN tl
        ELSE IF draggedIndex = dropIndex \/ draggedIndex = dropIndex - 1 THEN tl
        ELSE SpliceIn(SpliceOut(tl, draggedIndex), dropIndex, tl[draggedIndex + 1])

RowDropUpdate(tl, dragged, dropIndex) ==
    LET draggedIndex == FindIndex(tl, dragged)
    IN  IF draggedIndex = -1 THEN tl
        ELSE IF draggedIndex = dropIndex \/ draggedIndex = dropIndex - 1 THEN tl
        ELSE LET adjustedIndex == IF dropIndex > draggedIndex THEN dropIndex - 1
                                  ELSE dropIndex
             IN  SpliceIn(SpliceOut(tl, draggedIndex), adjustedIndex, tl[draggedIndex + 1])

\* whether the updater returned a new array rather than currentTimeline
RowDropMoves(tl, dragged, dropIndex) ==
    LET draggedIndex == FindIndex(tl, dragged)
    IN  draggedIndex # -1 /\ draggedIndex # dropIndex /\ draggedIndex # dropIndex - 1

\* handleTimelineRowDrop, leaving op as the record of the step
RowDrop(dropIndex, op) ==
    /\ draggedItem # 0
    /\ Commit(RowDropUpdate(timeline, draggedItem, dropIndex), library, isPlaying,
              progress, RowDropMoves(timeline, draggedItem, dropIndex),
              rafPending, rafRef)
    /\ draggedItem' = 0
    /\ UNCHANGED <<recVars, nextClipId, probe, imageLoader, ingests>>
    /\ lastOp' = op

handleTimelineRowDrop(dropIndex) == RowDrop(dropIndex, Op("rowDrop"))

\* the same handler, recording what was dropped where
DropAt(dropIndex) == RowDrop(dropIndex, DropOp(dropIndex))

----------------------------------------------------------------------------
(* Playback clock *)

\* onClick of the play/pause button
TogglePlayNoRewind(playing, prog, total) ==
    [playing |-> ~playing, prog |-> prog]

TogglePlayResult(playing, prog, total) ==
    [playing |-> ~playing,
     prog |-> IF ~playing THEN Rewind(prog, total) ELSE prog]

TogglePlay ==
    /\ draggedItem = 0
    /\ LET r == TogglePlayResult(isPlaying, progress, totalDuration)
       IN  Commit(timeline, library, r.playing, r.prog, FALSE, rafPending, rafRef)
    /\ UNCHANGED <<recVars, draggedItem, nextClipId, probe, imageLoader, ingests>>
    /\ lastOp' = Op(IF isPlaying THEN "pause" ELSE "play")

\* body of tick(now) for the callback cb; now is measured from the clock
\* reading of the effect that requested cb
TickLoops(cb, now) ==
    LET t == Max(0, now - cb.startedAt)
    IN  [prog |-> IF t < cb.total THEN t ELSE 0, playing |-> TRUE, again |-> TRUE]

TickBody(cb, now) ==
    LET t == Max(0, now - cb.startedAt)
    IN  [prog |-> Min(t, cb.total), playing |-> t < cb.total, again |-> t < cb.total]

\* recState after tick: tick calls setProgress and setIsPlaying only
TickEndsRecording(rs, playing) == IF playing THEN rs ELSE "idle"

TickRecState(rs, playing) == rs

\* the refresh signal runs one pending callback
Tick(cb, now) ==
    /\ cb \in rafPending
    /\ LET b    == TickBody(cb, now)
           r0   == [pend |-> rafPending \ {cb}, ref |-> rafRef]
           r1   == IF b.again THEN RequestFrame(r0, cb.startedAt, cb.total) ELSE r0
       IN  CommitAfter(<<Max(0, now - cb.startedAt)>>, timeline, library,
                       IF b.playing THEN isPlaying ELSE FALSE,
                       b.prog, FALSE, r1.pend, r1.ref)
    /\ recState' = TickRecState(recState, TickBody(cb, now).playing)
    /\ UNCHANGED <<recorders, mediaRecorderRef, recordedChunks, artifacts,
                   draggedItem, nextClipId, probe, imageLoader, ingests>>
    /\ lastOp' = Op("tick")

\* the part of a frame that fails while the frame is produced
Faults == {"media", "caption", "title"}

\* whether the failure leaves renderAtTime(t) as an exception: drawMedia
\* catches its own errors and drawClip those of drawMedia and drawCaption,
\* drawTitle is called outside any try, once an active entry is found
FrameThrows(fault, t) == fault = "title" /\ activeIndexAt(t).index >= 0

\* tick(now) for a frame with a failing part: progress is set before
\* renderAtTime is called, and the catch block sets isPlaying to false
TickFaultBody(cb, now, fault) ==
    LET t == Max(0, now - cb.startedAt)
    IN  IF FrameThrows(fault, t)
        THEN [prog |-> Min(t, cb.total), playing |-> FALSE, again |-> FALSE]
        ELSE TickBody(cb, now)

TickFault(cb, now, fault) ==
    /\ cb \in rafPending
    /\ LET b    == TickFaultBody(cb, now, fault)
           r0   == [pend |-> rafPending \ {cb}, ref |-> rafRef]
           r1   == IF b.again THEN RequestFrame(r0, cb.startedAt, cb.total) ELSE r0
       IN  CommitAfter(<<Max(0, now - cb.startedAt)>>, timeline, library,
                       IF b.playing THEN isPlaying ELSE FALSE,
                       b.prog, FALSE, r1.pend, r1.ref)
    /\ recState' = TickRecState(recState, TickFaultBody(cb, now, fault).playing)
    /\ UNCHANGED <<recorders, mediaRecorderRef, recordedChunks, artifacts,
                   draggedItem, nextClipId, probe, imageLoader, ingests>>
    /\ lastOp' = Op(IF FrameThrows(fault, Max(0, now - cb.startedAt))
                    THEN "tickError" ELSE "tick")

----------------------------------------------------------------------------
(* Recording *)

ActiveRecorders == {i \in 1..Len(recorders) : recorders[i].state = "recording"}

\* startRecording, with the stream and the encoder opening without error
StartRecordingUnguarded(rs) == TRUE

StartRecordingRuns(rs) == rs # "recording"

startRecording ==
    /\ draggedItem = 0
    /\ lastOp' = [name |-> "startRecording", progress |-> progress,
                  isPlaying |-> isPlaying, recState |-> recState]
    /\ IF StartRecordingRuns(recState)
       THEN /\ Len(recorders) < MaxRecordings
            /\ recorders' = Append(recorders, [state |-> "recording", events |-> <<>>])
            /\ mediaRecorderRef' = Len(recorders) + 1
            /\ recordedChunks' = <<>>
            /\ recState' = "recording"
            /\ Commit(timeline, library, TRUE, 0, FALSE, rafPending, rafRef)
            /\ UNCHANGED <<artifacts, draggedItem, nextClipId, probe, imageLoader, ingests>>
       ELSE UNCHANGED <<library, timeline, isPlaying, progress, rafPending, rafRef, lastRender,
                        recVars, draggedItem, nextClipId, probe, imageLoader, ingests>>

\* the calls of startRecording that can throw: canvas.captureStream(30),
\* new MediaRecorder(stream, ...) and mr.start()
StartFailures == {"captureStream", "MediaRecorder", "start"}

\* what the try block of startRecording has done when the call throws: the
\* buffer is emptied and the encoder stored in mediaRecorderRef between the
\* constructor and mr.start(); the state updates come after mr.start()
StartFailureAfterUpdates(at, rs, playing, prog) ==
    [created |-> at = "start", recState |-> "recording", playing |-> TRUE, prog |-> 0]

StartFailure(at, rs, playing, prog) ==
    [created |-> at = "start", recState |-> rs, playing |-> playing, prog |-> prog]

\* startRecording with one of its calls throwing: the catch block logs
startRecordingThrows(at) ==
    /\ draggedItem = 0
    /\ StartRecordingRuns(recState)
    /\ lastOp' = [name |-> "startRecordingError", progress |-> progress,
                  isPlaying |-> isPlaying, recState |-> recState]
    /\ LET f == StartFailure(at, recState, isPlaying, progress)
       IN  /\ IF f.created
              THEN /\ Len(recorders) < MaxRecordings
                   /\ recorders' = Append(recorders,
                                          [state |-> "inactive", events |-> <<>>])
                   /\ mediaRecorderRef' = Len(recorders) + 1
                   /\ recordedChunks' = <<>>
              ELSE UNCHANGED <<recorders, mediaRecorderRef, recordedChunks>>
           /\ recState' = f.recState
           /\ Commit(timeline, library, f.playing, f.prog, FALSE, rafPending, rafRef)
    /\ UNCHANGED <<artifacts, draggedItem, nextClipId, probe, imageLoader, ingests>>

\* what stopRecording sets after mediaRecorderRef.current?.stop()
StopRecordingRewinds(playing, prog) == [playing |-> FALSE, prog |-> 0]

StopRecordingSets(playing, prog) == [playing |-> FALSE, prog |-> prog]

stopRecording ==
    /\ draggedItem = 0
    /\ lastOp' = [name |-> "stopRecording", progress |-> progress,
                  isPlaying |-> isPlaying, recState |-> recState]
    /\ IF recState # "recording"
       THEN UNCHANGED <<library, timeline, isPlaying, progress, rafPending, rafRef, lastRender,
                        recVars, draggedItem, nextClipId, probe, imageLoader, ingests>>
       ELSE IF mediaRecorderRef # 0 /\ recorders[mediaRecorderRef].state # "recording"
       THEN \* stop() throws InvalidStateError, caught: nothing is set
            UNCHANGED <<library, timeline, isPlaying, progress, rafPending, rafRef, lastRender,
                        recVars, draggedItem, nextClipId, probe, imageLoader, ingests>>
       ELSE /\ recorders' = IF mediaRecorderRef = 0 THEN recorders
                            ELSE [recorders EXCEPT ![mediaRecorderRef] =
                                     [state |-> "inactive", events |-> <<"data", "stop">>]]
            /\ recState' = "idle"
            /\ LET s == StopRecordingSets(isPlaying, progress)
               IN  Commit(timeline, library, s.playing, s.prog, FALSE, rafPending, rafRef)
            /\ UNCHANGED <<mediaRecorderRef, recordedChunks, artifacts, draggedItem,
                           nextClipId, probe, imageLoader, ingests>>

\* the encoder delivers its next event: mr.ondataavailable or mr.onstop
RecorderEvent(i, size) ==
    /\ i \in 1..Len(recorders)
    /\ recorders[i].events # <<>>
    /\ recorders' = [recorders EXCEPT ![i].events = Tail(@)]
    /\ IF Head(recorders[i].events) = "data"
       THEN /\ recordedChunks' = IF size > 0 THEN Append(recordedChunks, i)
                                 ELSE recordedChunks
            /\ UNCHANGED artifacts
       ELSE /\ size = 0
            /\ artifacts' = Append(artifacts, recordedChunks)
            /\ UNCHANGED recordedChunks
    /\ UNCHANGED <<library, timeline, isPlaying, progress, rafPending, rafRef, lastRender,
                   recState, mediaRecorderRef, draggedItem, nextClipId, probe, imageLoader, ingests>>
    /\ lastOp' = Op("recorderEvent")

\* the encoder fails while recording: it goes inactive, mr.onerror runs, and
\* the final dataavailable and stop events follow
RecorderError(i) ==
    /\ i \in ActiveRecorders
    /\ recorders' = [recorders EXCEPT ![i] =
                        [state |-> "inactive", events |-> <<"data", "stop">>]]
    /\ recState' = "idle"
    /\ UNCHANGED <<library, timeline, isPlaying, progress, rafPending, rafRef, lastRender,
                   mediaRecorderRef, recordedChunks, artifacts, draggedItem,
                   nextClipId, probe, imageLoader, ingests>>
    /\ lastOp' = [name |-> "recorderError", progress |-> progress,
                  isPlaying |-> isPlaying, recState |-> recState]

----------------------------------------------------------------------------
(* The program *)

Init ==
    /\ library = <<>>
    /\ timeline = <<>>
    /\ isPlaying = FALSE
    /\ progress = 0
    /\ recState = "idle"
    /\ draggedItem = 0
    /\ nextClipId = 0
    /\ rafPending = {}
    /\ rafRef = 0
    /\ recorders = <<>>
    /\ mediaRecorderRef = 0
    /\ recordedChunks = <<>>
    /\ artifacts = <<>>
    /\ lastOp = NoOp
    /\ probe = NoProbe
    /\ lastRender = [t |-> 0, n |-> 1]
    /\ imageLoader = NoLoads
    /\ ingests = <<>>

ClipIds == {timeline[i].id : i \in 1..Len(timeline)}

ImageClipIds ==
    {timeline[i].id : i \in {j \in 1..Len(timeline) :
                               FindLib(library, timeline[j].libId).type = "image"}}

\* The handlers of the component and the refresh callback. Drag and drop is
\* followed in the reordering runs (NextDrop, NextReorder): a reorder reaches
\* the rest of the state the way a duration edit does, through a new timeline
\* array
Next ==
    \/ \E kinds \in SeqsUpTo(Files, Cardinality(Files)) : OnFiles(kinds)
    \/ \E i \in 1..Len(library) : addToTimeline(library[i].id)
    \/ \E id \in ClipIds : removeFromTimeline(id)
    \/ \E id \in ImageClipIds, v \in RawDurations : SetDuration(id, v)
    \/ TogglePlay
    \/ \E cb \in rafPending, now \in FrameDeltas : Tick(cb, now)
    \/ \E cb \in rafPending, now \in FrameDeltas, fault \in Faults :
          TickFault(cb, now, fault)
    \/ (Len(recorders) < MaxPasses /\ startRecording)
    \/ stopRecording

Spec == Init /\ [][Next]_vars

\* the refresh signal fires as long as a callback is pending
TickStep == \E cb \in rafPending, now \in FrameDeltas : Tick(cb, now)

\* The program with no frame failing, the refresh signal delivered as long
\* as a callback is pending
NextFair ==
    \/ \E kinds \in SeqsUpTo(Files, Cardinality(Files)) : OnFiles(kinds)
    \/ \E i \in 1..Len(library) : addToTimeline(library[i].id)
    \/ \E id \in ClipIds : removeFromTimeline(id)
    \/ \E id \in ImageClipIds, v \in RawDurations : SetDuration(id, v)
    \/ TogglePlay
    \/ TickStep
    \/ (Len(recorders) < MaxPasses /\ startRecording)
    \/ stopRecording

SpecFair == Init /\ [][NextFair]_vars /\ WF_vars(TickStep)

\* The recording pipeline with its encoder events, on the timeline of the
\* end-to-end scenario: one image (4.0 s) then one video (6.0 s), as left
\* by ingesting both files and adding both to the timeline.
InitRec ==
    /\ library = <<ImageItem(1), VideoItem(2, 6000)>>
    /\ timeline = <<Clip(1, 1, DefaultDuration, ""), Clip(2, 2, DefaultDuration, "")>>
    /\ isPlaying = FALSE
    /\ progress = 0
    /\ recState = "idle"
    /\ draggedItem = 0
    /\ nextClipId = 2
    /\ rafPending = {}
    /\ rafRef = 0
    /\ recorders = <<>>
    /\ mediaRecorderRef = 0
    /\ recordedChunks = <<>>
    /\ artifacts = <<>>
    /\ lastOp = NoOp
    /\ probe = NoProbe
    /\ lastRender = [t |-> 0, n |-> 1]
    /\ imageLoader = NoLoads
    /\ ingests = <<>>

NextRec ==
    \/ TogglePlay
    \/ \E cb \in rafPending, now \in FrameDeltas : Tick(cb, now)
    \/ \E cb \in rafPending, now \in FrameDeltas, fault \in Faults :
          TickFault(cb, now, fault)
    \/ startRecording
    \/ stopRecording
    \/ \E i \in 1..Len(recorders), size \in {0, 1} : RecorderEvent(i, size)
    \/ \E i \in 1..Len(recorders) : RecorderError(i)
    \/ \E at \in StartFailures : startRecordingThrows(at)

SpecRec == InitRec /\ [][NextRec]_vars

\* Reordering by drag and drop on timelines of up to MaxDropLen image entries,
\* as left by adding the same image that many times.
InitDrop ==
    /\ library = <<ImageItem(1)>>
    /\ \E n \in 1..MaxDropLen :
          /\ timeline = [i \in 1..n |-> Clip(i, 1, DefaultDuration, "")]
          /\ nextClipId = n
    /\ isPlaying = FALSE
    /\ progress = 0
    /\ recState = "idle"
    /\ draggedItem = 0
    /\ rafPending = {}
    /\ rafRef = 0
    /\ recorders = <<>>
    /\ mediaRecorderRef = 0
    /\ recordedChunks = <<>>
    /\ artifacts = <<>>
    /\ lastOp = NoOp
    /\ probe = NoProbe
    /\ lastRender = [t |-> 0, n |-> 1]
    /\ imageLoader = NoLoads
    /\ ingests = <<>>

NextDrop ==
    \/ \E c \in ClipIds : handleTimelineDragStart(c)
    \/ handleTimelineDragEnd
    \/ \E k \in 0..Len(timeline) : DropAt(k)

SpecDrop == InitDrop /\ [][NextDrop]_vars

\* Reorders of timelines of images and videos of different durations. The
\* entry with the last id handed out has been removed, and a drag may be under
\* way on any id handed out, also on the removed one (setDraggedItem(null) runs
\* only in a drop or a dragend, and a removed row delivers neither)
ReorderEntries ==
    {Clip(0, 1, d, "") : d \in RenderDurations} \cup {Clip(0, 2, DefaultDuration, "a")}

ReorderTimelines ==
    {[i \in 1..Len(es) |-> [es[i] EXCEPT !.id = i]] :
        es \in SeqsUpTo(ReorderEntries, MaxReorderLen)}

InitReorder ==
    /\ library = <<ImageItem(1), VideoItem(2, 6000)>>
    /\ timeline \in ReorderTimelines
    /\ nextClipId = Len(timeline) + 1
    /\ draggedItem \in 0..nextClipId
    /\ isPlaying = FALSE
    /\ progress = 0
    /\ recState = "idle"
    /\ rafPending = {}
    /\ rafRef = 0
    /\ recorders = <<>>
    /\ mediaRecorderRef = 0
    /\ recordedChunks = <<>>
    /\ artifacts = <<>>
    /\ lastOp = NoOp
    /\ probe = NoProbe
    /\ lastRender = [t |-> 0, n |-> 1]
    /\ imageLoader = NoLoads
    /\ ingests = <<>>

NextReorder ==
    \/ \E c \in ClipIds : handleTimelineDragStart(c)
    \/ \E c \in ClipIds : removeFromTimeline(c)
    \/ handleTimelineDragEnd
    \/ \E k \in 0..Len(timeline) : DropAt(k)

SpecReorder == InitReorder /\ [][NextReorder]_vars

\* renderAtTime applied to timelines over one image and one video, for every
\* crossfade setting, title setting and readiness of the video element
RenderEntries ==
    {Clip(0, 1, d, c) : d \in RenderDurations, c \in Captions}
    \cup {Clip(0, 2, DefaultDuration, c) : c \in Captions}

RenderTimelines ==
    {[i \in 1..Len(es) |-> [es[i] EXCEPT !.id = i]] :
        es \in SeqsUpTo(RenderEntries, MaxRenderLen)}

InitRender ==
    /\ library = <<ImageItem(1), VideoItem(2, 6000)>>
    /\ timeline \in RenderTimelines
    /\ nextClipId = Len(timeline)
    /\ isPlaying = FALSE
    /\ progress = 0
    /\ recState = "idle"
    /\ draggedItem = 0
    /\ rafPending = {}
    /\ rafRef = 0
    /\ recorders = <<>>
    /\ mediaRecorderRef = 0
    /\ recordedChunks = <<>>
    /\ artifacts = <<>>
    /\ lastOp = NoOp
    /\ probe = NoProbe
    /\ lastRender = [t |-> 0, n |-> 1]
    /\ imageLoader = NoLoads
    /\ ingests = <<>>

RenderAt(t, cf, titled, ready) ==
    /\ ~probe.applied
    /\ probe' = [applied |-> TRUE, t |-> t, total |-> totalDuration,
                 res |-> activeIndexAt(t), crossfade |-> cf, titled |-> titled,
                 ready |-> ready,
                 frame |-> RenderFrame(timeline, library, t, cf, titled, ready)]
    /\ UNCHANGED <<library, timeline, isPlaying, progress, recState, draggedItem,
                   nextClipId, rafPending, rafRef, lastRender, recorders, mediaRecorderRef,
                   recordedChunks, artifacts, lastOp, imageLoader, ingests>>

NextRender ==
    \E t \in RenderTimes, cf \in CrossfadeValues, titled \in BOOLEAN, ready \in BOOLEAN :
        RenderAt(t, cf, titled, ready)

SpecRender == InitRender /\ [][NextRender]_vars

\* loadImage called for arbitrary sources at arbitrary moments
InitLoad == Init

NextLoad ==
    \/ \E src \in Sources : loadImage(src)
    \/ \E i \in 1..Len(imageLoader.elements) : onload(i)
    \/ \E i \in 1..Len(imageLoader.elements) : onerror(i)

SpecLoad == InitLoad /\ [][NextLoad]_vars

\* batches of files dropped at arbitrary moments, their decodes and probes
\* settling in any order
InitIngest == Init

NextIngest ==
    \/ \E files \in SeqsUpTo(IngestFiles, MaxBatchLen) : onFilesCall(files)
    \/ \E b \in 1..Len(ingests) : FileSettles(b)

SpecIngest == InitIngest /\ [][NextIngest]_vars

----------------------------------------------------------------------------
(* Effective durations as the data model defines them *)

EffectiveDuration(clip) ==
    LET l == FindLib(library, clip.libId)
    IN  CASE l = NoLib -> 0
          [] l.type = "video" -> l.duration
          [] OTHER -> clip.duration

RECURSIVE EffectiveSum(_)
EffectiveSum(n) ==
    IF n = 0 THEN 0 ELSE EffectiveSum(n - 1) + EffectiveDuration(timeline[n])

Resolved == \A i \in 1..Len(timeline) : FindLib(library, timeline[i].libId) # NoLib

HasDangling == ~Resolved

\* C1: totalDuration is the sum over the entries of the effective duration:
\* the item's intrinsic duration for a video entry (the entry's own duration
\* field is ignored), the entry's own duration for an image entry, and 0 for
\* an entry whose libId resolves to no library item.
C1_TotalDurationIsSum ==
    probe.applied => probe.total = EffectiveSum(Len(timeline))

\* C1 witness: an image of 4.0 s followed by a video of 6.0 s and a dangling
\* entry has been measured as 10.0 s.
C1_Witness ==
    /\ probe.applied
    /\ Len(timeline) >= 2
    /\ FindLib(library, timeline[1].libId).type = "image"
    /\ timeline[1].duration = 4000
    /\ FindLib(library, timeline[2].libId).type = "video"
    /\ timeline[2].duration # FindLib(library, timeline[2].libId).duration
    /\ probe.total = 10000

\* C1 second case is covered by the same invariant: a timeline holding a
\* dangling entry next to a resolved one.
C1_DanglingReached ==
    probe.applied /\ HasDangling /\ probe.total > 0

\* C2 (as claimed): for every timeline, dangling entries included, and every
\* t with 0 <= t < totalDuration, activeIndexAt(t) returns a valid index i
\* with localTime = t - (sum of the effective durations before i) and
\* 0 <= localTime < effective duration of entry i.
C2_ActiveWithinTotal ==
    (probe.applied /\ 0 <= probe.t /\ probe.t < probe.total) =>
        /\ probe.res.index \in 0..(Len(timeline) - 1)
        /\ probe.res.localTime = probe.t - EffectiveSum(probe.res.index)
        /\ 0 <= probe.res.localTime
        /\ probe.res.localTime < EffectiveDuration(timeline[probe.res.index + 1])

\* C3 (as claimed): activeIndexAt(t) returns index -1 whenever t is negative,
\* the timeline is empty, or t >= totalDuration.
C3_NotFoundOutside ==
    (probe.applied /\ (probe.t < 0 \/ Len(timeline) = 0 \/ probe.t >= probe.total)) =>
        probe.res.index = -1

LaterPositive(i) ==
    {j \in (i + 1)..Len(timeline) : EffectiveDuration(timeline[j]) > 0}

AtEndOf(i) == probe.applied /\ probe.t = EffectiveSum(i) /\ LaterPositive(i) # {}

C4_TieBreakOnResolved ==
    Resolved =>
        \A i \in 1..Len(timeline) :
            AtEndOf(i) =>
               /\ probe.res.index + 1 \in LaterPositive(i)
               /\ \A j \in LaterPositive(i) : probe.res.index + 1 <= j
               /\ probe.res.localTime = 0

----------------------------------------------------------------------------
(* Recording claims, under SpecRec *)

\* C5: startRecording while idle sets progress to 0, isPlaying to true and
\* recState to recording, whatever the prior progress and play state, and
\* allocates one encoder; startRecording while recording changes nothing and
\* allocates none; at most one encoder is ever active.
C5_StartRecording ==
    /\ [](Cardinality(ActiveRecorders) <= 1)
    /\ [][startRecording =>
            IF recState = "recording"
            THEN UNCHANGED <<library, timeline, isPlaying, progress, rafPending,
                             rafRef, recVars, draggedItem, nextClipId>>
            ELSE /\ progress' = 0
                 /\ isPlaying'
                 /\ recState' = "recording"
                 /\ Len(recorders') = Len(recorders) + 1
                 /\ ActiveRecorders' = {Len(recorders')}]_vars

\* C5 witness: a second recording was started from a paused playhead past 0.
C5_Witness ==
    /\ lastOp.name = "startRecording"
    /\ lastOp.recState = "idle"
    /\ lastOp.progress > 0
    /\ ~lastOp.isPlaying
    /\ progress = 0
    /\ isPlaying
    /\ recState = "recording"
    /\ Len(recorders) = 2
    /\ ActiveRecorders = {2}

\* C6: stopRecording while recording stops the encoder, sets recState to idle
\* and isPlaying to false and leaves progress unchanged; stopRecording while
\* idle changes neither recState, isPlaying, progress nor the buffered chunks
\* and produces no artifact.
C6_StopRecording ==
    [][stopRecording =>
         IF recState = "recording"
         THEN /\ recorders[mediaRecorderRef].state = "recording"
              /\ recorders'[mediaRecorderRef].state = "inactive"
              /\ recState' = "idle"
              /\ ~isPlaying'
              /\ progress' = progress
         ELSE UNCHANGED <<recState, isPlaying, progress, recordedChunks, artifacts,
                          recorders, mediaRecorderRef>>]_vars

\* C6 witness: a recording that had played past 0 was stopped.
C6_Witness ==
    /\ lastOp.name = "stopRecording"
    /\ lastOp.recState = "recording"
    /\ lastOp.isPlaying
    /\ lastOp.progress > 0
    /\ progress = lastOp.progress
    /\ ~isPlaying
    /\ recState = "idle"
    /\ recorders[mediaRecorderRef].state = "inactive"

\* C6 second case: stopRecording was pressed while idle with chunks buffered.
C6_IdleStopReached ==
    /\ lastOp.name = "stopRecording"
    /\ lastOp.recState = "idle"
    /\ recordedChunks # <<>>

----------------------------------------------------------------------------
(* Playback claims, under Spec and SpecFair *)

\* C7: after every operation and its effects 0 <= progress <= totalDuration;
\* when a change shrinks totalDuration below the stored progress, progress
\* is reset to 0.
C7_ProgressWithinTotal ==
    /\ [](0 <= progress /\ progress <= totalDuration)
    /\ [][totalDuration' < progress => progress' = 0]_vars

\* C7 witness: a timeline edit left totalDuration below the progress stored
\* before it, and progress is 0.
C7_Witness ==
    /\ lastOp.name \in {"removeFromTimeline", "setDuration"}
    /\ lastOp.progress > totalDuration
    /\ totalDuration > 0
    /\ progress = 0

Halted == ~isPlaying /\ rafPending = {}

\* C8: when only refresh ticks happen from some point on, playback ends up
\* halted for good; the tick that halts it ran with elapsed >= totalDuration
\* and leaves isPlaying false, progress = totalDuration and no tick
\* scheduled; a tick with elapsed < totalDuration moves progress forward.
C8_PlaybackHalts ==
    /\ (<>[][TickStep]_vars) => <>[]Halted
    /\ [](~isPlaying => rafPending = {})
    /\ [][\A cb \in rafPending, now \in FrameDeltas :
            Tick(cb, now) =>
               IF now - cb.startedAt >= totalDuration
               THEN ~isPlaying' /\ progress' = totalDuration /\ rafPending' = {}
               ELSE isPlaying' /\ progress' > progress]_vars

\* C8 witness: a tick halted playback at the end of a non-empty timeline.
C8_Witness ==
    /\ lastOp.name = "tick"
    /\ lastOp.isPlaying
    /\ Halted
    /\ totalDuration > 0
    /\ progress = totalDuration

AnchoredAt(p) ==
    \E cb \in rafPending :
        rafPending = {cb} /\ cb.startedAt = 0 - p /\ cb.total = totalDuration

\* C9 (as claimed): pausing cancels the pending tick and leaves progress as
\* the last tick stored it; no tick runs while paused; a later resume
\* continues from the stored progress rather than from 0.
C9_PauseResumeAsClaimed ==
    /\ [](~isPlaying => rafPending = {})
    /\ [][TogglePlay =>
            IF isPlaying
            THEN ~isPlaying' /\ progress' = progress /\ rafPending' = {}
            ELSE lastOp.name = "pause" =>
                    (isPlaying' /\ progress' = progress /\ AnchoredAt(progress)')]_vars

\* C9 (amended): as claimed, but the resume continues from the stored
\* progress only if it is more than epsilon before the end; from
\* progress >= totalDuration - epsilon it restarts at 0.
C9_PauseResume ==
    /\ [](~isPlaying => rafPending = {})
    /\ [][TogglePlay =>
            IF isPlaying
            THEN ~isPlaying' /\ progress' = progress /\ rafPending' = {}
            ELSE /\ isPlaying'
                 /\ IF progress >= Max(0, totalDuration - Eps)
                    THEN progress' = 0 /\ AnchoredAt(0)'
                    ELSE progress' = progress /\ AnchoredAt(progress)']_vars

\* C9 witness: playback was resumed from a stored progress past 0.
C9_Witness ==
    /\ lastOp.name = "play"
    /\ lastOp.progress > 0
    /\ progress = lastOp.progress
    /\ isPlaying
    /\ AnchoredAt(progress)

\* C9 first case: playback was paused past 0 and nothing is pending.
C9_PausedReached ==
    /\ lastOp.name = "pause"
    /\ progress > 0
    /\ progress = lastOp.progress
    /\ Halted

\* C10: toggling play while stopped with progress >= totalDuration - epsilon
\* rewinds progress to 0 and enters Running with the clock anchored at 0, so
\* the next tick presents its own elapsed time and keeps playing unless that
\* already covers the whole timeline.
C10_PlayAtEndRestarts ==
    /\ [][(TogglePlay /\ ~isPlaying /\ progress >= totalDuration - Eps) =>
            (progress' = 0 /\ isPlaying' /\ AnchoredAt(0)')]_vars
    /\ [][\A cb \in rafPending, now \in FrameDeltas :
            (Tick(cb, now) /\ lastOp.name = "play"
               /\ lastOp.progress >= totalDuration - Eps /\ now < totalDuration) =>
               (isPlaying' /\ progress' = now)]_vars

\* C10 witness: play was pressed with the playhead at the end of a non-empty
\* timeline.
C10_Witness ==
    /\ lastOp.name = "play"
    /\ lastOp.progress = totalDuration
    /\ totalDuration > 0
    /\ progress = 0
    /\ isPlaying
    /\ AnchoredAt(0)

----------------------------------------------------------------------------
(* Reordering claims, under SpecDrop *)

Ids(tl) == [i \in 1..Len(tl) |-> tl[i].id]

DraggedIndex == FindIndex(timeline, draggedItem)

\* C11: dropping the entry at index i on target index i or on target index
\* i + 1 leaves the timeline sequence unchanged.
C11_DropOnOwnSlot ==
    [][\A k \in 0..Len(timeline) :
          (DropAt(k) /\ DraggedIndex # -1
             /\ (k = DraggedIndex \/ k = DraggedIndex + 1)) =>
             timeline' = timeline]_vars

\* C11 witness: a middle entry was dropped on the target just below it and
\* the order is what it was.
C11_Witness ==
    /\ lastOp.name = "rowDrop"
    /\ Len(timeline) >= 3
    /\ lastOp.from = 1
    /\ lastOp.to = lastOp.from + 1
    /\ Ids(timeline) = lastOp.before

\* C11 first case: a middle entry was dropped on its own index.
C11_OwnIndexReached ==
    /\ lastOp.name = "rowDrop"
    /\ Len(timeline) >= 3
    /\ lastOp.from = 1
    /\ lastOp.to = lastOp.from
    /\ Ids(timeline) = lastOp.before

\* C12: for a dragged entry at index i and a target index k in pre-removal
\* coordinates (0 <= k <= length, k not in {i, i + 1}), after the drop the
\* dragged entry sits immediately before the entry that was at index k (or
\* last when k = length), the other entries keep their order, whether the
\* entry came from above or from below.
C12_DropLandsBeforeTarget ==
    [][\A k \in 0..Len(timeline) :
          (DropAt(k) /\ DraggedIndex # -1
             /\ k # DraggedIndex /\ k # DraggedIndex + 1) =>
             LET pos == FindIndex(timeline', draggedItem)
             IN  /\ Len(timeline') = Len(timeline)
                 /\ pos # -1
                 /\ timeline'[pos + 1] = timeline[DraggedIndex + 1]
                 /\ IF k = Len(timeline)
                    THEN pos = Len(timeline) - 1
                    ELSE /\ pos + 2 <= Len(timeline)
                         /\ timeline'[pos + 2] = timeline[k + 1]
                 /\ SpliceOut(timeline', pos) = SpliceOut(timeline, DraggedIndex)]_vars

\* C12 witness: the first of four entries was dragged from above onto target
\* index 2 and now sits right before the entry that was at index 2.
C12_Witness ==
    /\ lastOp.name = "rowDrop"
    /\ Len(timeline) = 4
    /\ lastOp.from = 0
    /\ lastOp.to = 2
    /\ Ids(timeline) = <<lastOp.before[2], lastOp.before[1],
                         lastOp.before[3], lastOp.before[4]>>

\* C12 second case: the last of four entries was dragged from below onto
\* target index 1.
C12_FromBelowReached ==
    /\ lastOp.name = "rowDrop"
    /\ Len(timeline) = 4
    /\ lastOp.from = 3
    /\ lastOp.to = 1
    /\ Ids(timeline) = <<lastOp.before[1], lastOp.before[4],
                         lastOp.before[2], lastOp.before[3]>>

----------------------------------------------------------------------------
(* Duration edits, under Spec *)

IsImageEntry(clip) == FindLib(library, clip.libId).type = "image"

InSliderRange(d) == MinDuration <= d /\ d <= MaxDuration

\* C13: every duration stored by an image-duration edit lies in
\* [0.05, 4.0] whatever the raw input (10.0 is stored as 4.0, -1 as 0.05),
\* and every image entry's duration is within [0.05, 4.0] in every
\* reachable state.
C13_DurationClamped ==
    /\ [](\A i \in 1..Len(timeline) :
             IsImageEntry(timeline[i]) => InSliderRange(timeline[i].duration))
    /\ [][\A id \in ImageClipIds, v \in RawDurations :
             SetDuration(id, v) =>
                \A i \in 1..Len(timeline') :
                   timeline'[i].id = id =>
                      /\ InSliderRange(timeline'[i].duration)
                      /\ v >= MaxDuration => timeline'[i].duration = MaxDuration
                      /\ v <= MinDuration => timeline'[i].duration = MinDuration]_vars

\* C13 witness: an image entry holds 0.05 s, which only the edit requesting
\* -1 s stores, next to one holding 4.0 s.
C13_Witness ==
    /\ Len(timeline) = 2
    /\ IsImageEntry(timeline[1])
    /\ timeline[1].duration = MinDuration
    /\ IsImageEntry(timeline[2])
    /\ timeline[2].duration = MaxDuration

----------------------------------------------------------------------------
(* Compositor claims, under SpecRender *)

Rendered == probe.applied /\ probe.frame.index >= 0

ClipOps(frame) ==
    {i \in 1..Len(frame.ops) : frame.ops[i].op \in {"media", "caption"}}

ActiveCall(frame) == frame.calls[Len(frame.calls)]

\* C14: a rendered frame is fading iff the active entry's localTime is less
\* than the crossfade window and the active index is greater than 0; the
\* first clip is never faded in; a frame that is not fading draws only the
\* active entry, at opacity 1.
C14_FadingIffInWindow ==
    Rendered =>
        LET frame == probe.frame
        IN  /\ frame.fading <=>
                 (frame.localTime < probe.crossfade /\ frame.index > 0)
            /\ frame.fading =>
                 /\ Len(frame.calls) = 2
                 /\ frame.calls[1].clipIndex = frame.index - 1
                 /\ frame.calls[2].clipIndex = frame.index
            /\ frame.index = 0 => ~frame.fading
            /\ ~frame.fading =>
                 /\ frame.calls = <<[clipIndex |-> frame.index, alpha |-> AlphaOne]>>
                 /\ \A i \in ClipOps(frame) :
                       /\ frame.ops[i].clipIndex = frame.index
                       /\ frame.ops[i].alpha = AlphaOne

\* C14 witness: half a second into the second entry with a window of one
\* second the frame fades between both entries.
C14_Witness ==
    /\ Rendered
    /\ probe.crossfade = 1000
    /\ probe.frame.index = 1
    /\ probe.frame.localTime = 500
    /\ probe.frame.fading
    /\ \E i \in ClipOps(probe.frame) : probe.frame.ops[i].clipIndex = 0

\* C14 second case: half a second into the first entry nothing fades and the
\* entry is painted at opacity 1.
C14_FirstClipReached ==
    /\ Rendered
    /\ probe.crossfade = 1000
    /\ probe.frame.index = 0
    /\ probe.frame.localTime = 500
    /\ ~probe.frame.fading
    /\ \E i \in ClipOps(probe.frame) :
          probe.frame.ops[i].op = "media" /\ probe.frame.ops[i].alpha = AlphaOne

\* C15: the blend factor min(1, localTime / crossfadeWindow) is
\* non-decreasing in localTime, lies in [0, 1] and is 1 for every
\* localTime >= crossfadeWindow; the active entry is drawn with it while
\* the frame fades and with 1 otherwise; with crossfadeWindow = 0 no frame
\* fades and the active entry is drawn at full opacity from localTime 0.
C15_BlendFactor ==
    probe.applied =>
        LET cf == probe.crossfade
            frame == probe.frame
        IN  /\ cf > 0 =>
                 \A a \in LocalTimes :
                    /\ 0 <= BlendFactor(a, cf)
                    /\ BlendFactor(a, cf) <= AlphaOne
                    /\ a >= cf => BlendFactor(a, cf) = AlphaOne
                    /\ \A b \in LocalTimes :
                          a <= b => BlendFactor(a, cf) <= BlendFactor(b, cf)
            /\ frame.index >= 0 =>
                 /\ ActiveCall(frame).clipIndex = frame.index
                 /\ frame.fading =>
                      /\ ActiveCall(frame).alpha = BlendFactor(frame.localTime, cf)
                      /\ frame.calls[1].alpha = AlphaOne - ActiveCall(frame).alpha
                 /\ frame.localTime >= cf => ActiveCall(frame).alpha = AlphaOne
                 /\ cf = 0 =>
                      /\ ~frame.fading
                      /\ ActiveCall(frame).alpha = AlphaOne
                      /\ \A i \in ClipOps(frame) : frame.ops[i].alpha = AlphaOne

\* C15 witness: at the very start of the second entry with crossfadeWindow 0
\* the entry is painted at full opacity.
C15_Witness ==
    /\ Rendered
    /\ probe.crossfade = 0
    /\ probe.frame.index = 1
    /\ probe.frame.localTime = 0
    /\ ~probe.frame.fading
    /\ \E i \in ClipOps(probe.frame) :
          /\ probe.frame.ops[i].op = "media"
          /\ probe.frame.ops[i].clipIndex = 1
          /\ probe.frame.ops[i].alpha = AlphaOne

\* C15 second case: a fading frame whose factor is strictly between 0 and 1.
C15_PartialBlendReached ==
    /\ Rendered
    /\ probe.frame.fading
    /\ ActiveCall(probe.frame).alpha > 0
    /\ ActiveCall(probe.frame).alpha < AlphaOne

\* the render-when-paused effect rendered the stored progress, once
RenderedAtProgress == lastRender = [t |-> progress, n |-> 1]

\* C16: a step that changes progress and leaves playback not running makes
\* the render-when-paused effect render the new progress exactly once, as
\* the last render of the step; hence whenever playback is not running (the
\* state right after playback reached the end included) the last render was
\* made for t = progress.
C16_PausedRenderAtProgress ==
    /\ [](~isPlaying => RenderedAtProgress)
    /\ [][(~isPlaying' /\ progress' # progress) => RenderedAtProgress']_vars

\* C16 witness: the tick that ended playback rendered a time beyond the end
\* and the effect then rendered progress = totalDuration.
C16_Witness ==
    /\ lastOp.name = "tick"
    /\ lastOp.isPlaying
    /\ ~isPlaying
    /\ totalDuration > 0
    /\ progress = totalDuration
    /\ lastOp.progress < progress
    /\ RenderedAtProgress

\* C16 second case: an edit made while paused at the end rewound the
\* playhead, and the frame for 0 was rendered after it.
C16_PausedRewindReached ==
    /\ lastOp.name \in {"setDuration", "addToTimeline", "removeFromTimeline", "rowDrop"}
    /\ ~lastOp.isPlaying
    /\ ~isPlaying
    /\ lastOp.progress > 0
    /\ progress = 0
    /\ RenderedAtProgress

----------------------------------------------------------------------------
(* Recording error claims, under SpecRec *)

\* C17: an encoder error puts recState back to idle and leaves the buffered
\* chunks as they were, and the stopRecording that follows the error acts on
\* the encoder: it stops it, so that the buffer is finalized into an
\* artifact.
C17_ErrorThenStopFinalizes ==
    /\ [][\A i \in 1..Len(recorders) :
            RecorderError(i) =>
               recState' = "idle" /\ recordedChunks' = recordedChunks]_vars
    /\ [][(lastOp.name = "recorderError" /\ stopRecording) =>
            ~UNCHANGED <<recState, isPlaying, recorders, artifacts>>]_vars

\* C17, the part about the error handler alone: recState idle, buffer kept.
C17_ErrorKeepsChunks ==
    [][\A i \in 1..Len(recorders) :
          RecorderError(i) =>
             recState' = "idle" /\ recordedChunks' = recordedChunks]_vars

\* C17 case: the encoder of the recording in progress failed while playback
\* ran; recState is idle again and the encoder is inactive.
C17_Witness ==
    /\ lastOp.name = "recorderError"
    /\ lastOp.recState = "recording"
    /\ lastOp.isPlaying
    /\ recState = "idle"
    /\ mediaRecorderRef # 0
    /\ recorders[mediaRecorderRef].state = "inactive"
    /\ artifacts = <<>>


\* C18: recState leaves "recording" for "idle" only in a stopRecording or
\* encoder-error step; a tick (the one that ends playback and the one whose
\* frame throws included) and a press of play/pause leave recState and the
\* encoders as they are and finalize no artifact.
C18_OnlyStopOrErrorEndsRecording ==
    /\ [][(recState = "recording" /\ recState' # "recording") =>
            /\ recState' = "idle"
            /\ \/ stopRecording
               \/ \E i \in 1..Len(recorders) : RecorderError(i)]_vars
    /\ [][(\/ TogglePlay
           \/ TickStep
           \/ \E cb \in rafPending, now \in FrameDeltas, fault \in Faults :
                 TickFault(cb, now, fault)) =>
            /\ recState' = recState
            /\ artifacts' = artifacts
            /\ recorders' = recorders]_vars

\* C18 witness: playback reached the end during a recording and recState is
\* still "recording", with the encoder active and no artifact.
C18_Witness ==
    /\ lastOp.name = "tick"
    /\ lastOp.isPlaying
    /\ ~isPlaying
    /\ progress = totalDuration
    /\ recState = "recording"
    /\ recorders[mediaRecorderRef].state = "recording"
    /\ artifacts = <<>>

\* C18 second case: the user paused during a recording.
C18_PausedWhileRecordingReached ==
    /\ lastOp.name = "pause"
    /\ lastOp.recState = "recording"
    /\ ~isPlaying
    /\ recState = "recording"
    /\ recorders[mediaRecorderRef].state = "recording"
    /\ artifacts = <<>>

\* C18 third case: a tick whose frame threw stopped playback during a
\* recording.
C18_TickErrorWhileRecordingReached ==
    /\ lastOp.name = "tickError"
    /\ lastOp.recState = "recording"
    /\ ~isPlaying
    /\ recState = "recording"
    /\ recorders[mediaRecorderRef].state = "recording"
    /\ artifacts = <<>>

----------------------------------------------------------------------------
(* Frame error claims, under Spec *)

\* a tick before the end of the timeline whose frame has the failing part
TickFaultBeforeEnd(faults) ==
    \E cb \in rafPending, now \in FrameDeltas, fault \in faults :
        /\ Max(0, now - cb.startedAt) < cb.total
        /\ TickFault(cb, now, fault)

\* C19: no failure while a frame is produced, be it in a clip's media, in a
\* caption or in the title overlay, stops the playback clock: after the tick
\* of such a frame, before the end of the timeline, isPlaying is still true
\* and the next tick is scheduled.
C19_FrameErrorKeepsClock ==
    [][TickFaultBeforeEnd(Faults) => isPlaying' /\ rafPending' # {}]_vars

\* C19, the part about clip content: a failure in a clip's media or caption
\* leaves the clock running.
C19_ClipErrorKeepsClock ==
    [][TickFaultBeforeEnd({"media", "caption"}) =>
          isPlaying' /\ rafPending' # {} /\ progress' > progress]_vars

\* C19 case: a tick before the end of the timeline whose title overlay threw
\* has stopped playback; nothing is scheduled.
C19_Witness ==
    /\ lastOp.name = "tickError"
    /\ lastOp.isPlaying
    /\ ~isPlaying
    /\ rafPending = {}
    /\ progress > 0
    /\ progress < totalDuration

----------------------------------------------------------------------------
(* Image loading claims, under SpecLoad *)

ElementsOf(src) ==
    {i \in 1..Len(imageLoader.elements) : imageLoader.elements[i].src = src}

ResolvedFor(src) ==
    {k \in 1..Len(imageLoader.promises) :
        /\ imageLoader.promises[k].src = src
        /\ imageLoader.promises[k].state = "resolved"}

\* C20: whatever the order of the loadImage calls and of the completions of
\* the decodes, all calls for one source resolve to the same Image and the
\* source is decoded once (one Image is created for it).
C20_SameObjectDecodedOnce ==
    \A src \in Sources :
        /\ \A k, m \in ResolvedFor(src) :
              imageLoader.promises[k].img = imageLoader.promises[m].img
        /\ Cardinality(ElementsOf(src)) <= 1

\* C20, the calls made after a decode completed: a call for a cached source
\* creates no Image and resolves to the cached one, and an entry of the cache
\* is a loaded Image of that source.
C20_CachedCallsShareObject ==
    /\ [](\A src \in Sources :
            Cached(imageLoader, src) =>
               /\ imageLoader.elements[imageLoader.cache[src]].src = src
               /\ imageLoader.elements[imageLoader.cache[src]].state = "loaded")
    /\ [][\A src \in Sources :
            (loadImage(src) /\ Cached(imageLoader, src)) =>
               /\ imageLoader'.elements = imageLoader.elements
               /\ imageLoader'.cache = imageLoader.cache
               /\ LET p == imageLoader'.promises[Len(imageLoader'.promises)]
                  IN  p.state = "resolved" /\ p.img = imageLoader.cache[src]]_vars

\* C20 case: two calls for one source were made before its decode completed,
\* and both decodes completed: the two promises are resolved with different
\* Image objects.
C20_Witness ==
    \E k, m \in 1..Len(imageLoader.promises) :
        /\ k < m
        /\ imageLoader.promises[k].src = imageLoader.promises[m].src
        /\ imageLoader.promises[k].state = "resolved"
        /\ imageLoader.promises[m].state = "resolved"
        /\ imageLoader.promises[k].img # imageLoader.promises[m].img

----------------------------------------------------------------------------
(* Ingestion claims, under SpecIngest *)

\* the files of a batch whose decode or probe succeeds
Succeeding(files) ==
    {i \in 1..Len(files) : files[i].type \in {"image", "video"} /\ files[i].ok}

\* one item for each succeeding file of call b, in batch order
ExpectedItems(b) ==
    LET files  == ingests[b].files
        ok     == Succeeding(files)
        nth(k) == CHOOSE i \in ok : Cardinality({j \in ok : j < i}) = k - 1
    IN  [k \in 1..Cardinality(ok) |->
            [id |-> ItemId(b, nth(k)), type |-> files[nth(k)].type,
             duration |-> files[nth(k)].duration]]

Finished(b) == ingests[b].next > Len(ingests[b].files)

\* C21: the step that ends an onFiles call appends to the library, as it is
\* at that moment, one item for each file of the batch that decoded or
\* probed successfully, in batch order; no other step of a call changes the
\* library; a failing file adds nothing and the later files of its batch
\* are still added; with two calls in flight no item of either is lost.
C21_BatchAppended ==
    /\ [][\A b \in 1..Len(ingests) :
            FileSettles(b) =>
               IF Finished(b)' THEN library' = library \o ExpectedItems(b)
               ELSE library' = library]_vars
    /\ [][(\E files \in SeqsUpTo(IngestFiles, MaxBatchLen) : onFilesCall(files)) =>
            library' = library]_vars
    /\ [](/\ {library[i] : i \in 1..Len(library)}
             = UNION {{ExpectedItems(b)[k] : k \in 1..Len(ExpectedItems(b))} :
                         b \in {c \in 1..Len(ingests) : Finished(c)}}
          /\ \A i, j \in 1..Len(library) : i # j => library[i].id # library[j].id)

\* C21 witness: two calls were in flight together; the first, whose first
\* file failed and whose second succeeded, ended after the second call, and
\* the library holds the item of the second call followed by the one of the
\* first.
C21_Witness ==
    /\ Len(ingests) = 2
    /\ Finished(1) /\ Finished(2)
    /\ Len(ingests[1].files) = 2
    /\ ~ingests[1].files[1].ok
    /\ ingests[1].files[1].type = "video"
    /\ Succeeding(ingests[1].files) = {2}
    /\ Succeeding(ingests[2].files) = {1}
    /\ library = ExpectedItems(2) \o ExpectedItems(1)

----------------------------------------------------------------------------
(* Recording failure claims, under SpecRec *)

\* C22: when canvas.captureStream, the MediaRecorder constructor or
\* mr.start() throws inside startRecording, recState stays idle, progress
\* and isPlaying keep their values, no callback is scheduled or cancelled,
\* no encoder is recording and no artifact is produced.
C22_StartFailureContained ==
    [][\A at \in StartFailures :
          startRecordingThrows(at) =>
             /\ recState' = recState
             /\ recState' = "idle"
             /\ progress' = progress
             /\ isPlaying' = isPlaying
             /\ rafPending' = rafPending
             /\ artifacts' = artifacts
             /\ ActiveRecorders' = {}]_vars

\* C22 witness: startRecording failed while playback was paused past 0.
C22_Witness ==
    /\ lastOp.name = "startRecordingError"
    /\ lastOp.recState = "idle"
    /\ ~lastOp.isPlaying
    /\ lastOp.progress > 0
    /\ recState = "idle"
    /\ ~isPlaying
    /\ progress = lastOp.progress
    /\ ActiveRecorders = {}

\* C22 second case: startRecording failed while playback ran; it still runs.
C22_FailedWhilePlayingReached ==
    /\ lastOp.name = "startRecordingError"
    /\ lastOp.isPlaying
    /\ isPlaying
    /\ progress = lastOp.progress
    /\ progress > 0
    /\ rafPending # {}
    /\ recState = "idle"

----------------------------------------------------------------------------
(* Painting claims, under SpecRender *)

\* positions in the paint order of the given kind of paint of one entry
OpsOf(frame, what, clipIndex) ==
    {i \in 1..Len(frame.ops) :
        frame.ops[i].op = what /\ frame.ops[i].clipIndex = clipIndex}

\* a fading frame whose two entries both have their media painted
FadingPainted ==
    /\ Rendered
    /\ probe.frame.fading
    /\ OpsOf(probe.frame, "media", probe.frame.index - 1) # {}
    /\ OpsOf(probe.frame, "media", probe.frame.index) # {}

\* C23: in a fading frame the media of the outgoing entry (index - 1) is
\* painted under opacity 1 - f and after it the media of the incoming entry
\* (index) under opacity f, whatever the types of the two entries.
C23_FadeLayersUnderOwnAlpha ==
    FadingPainted =>
        LET frame == probe.frame
            f     == BlendFactor(frame.localTime, probe.crossfade)
        IN  \A i \in OpsOf(frame, "media", frame.index - 1),
               j \in OpsOf(frame, "media", frame.index) :
               /\ i < j
               /\ frame.ops[i].alpha = AlphaOne - f
               /\ frame.ops[j].alpha = f

\* the types of the outgoing and the incoming entry of the probed frame
LayerTypes ==
    <<FindLib(library, timeline[probe.frame.index].libId).type,
      FindLib(library, timeline[probe.frame.index + 1].libId).type>>

\* C23, two videos: both are painted when drawClip is called, each right
\* after its own globalAlpha was set.
C23_VideoLayers ==
    (FadingPainted /\ LayerTypes = <<"video", "video">>) =>
        LET frame == probe.frame
            f     == BlendFactor(frame.localTime, probe.crossfade)
        IN  \A i \in OpsOf(frame, "media", frame.index - 1),
               j \in OpsOf(frame, "media", frame.index) :
               /\ i < j
               /\ frame.ops[i].alpha = AlphaOne - f
               /\ frame.ops[j].alpha = f

\* the blend factor of the probed frame
FrameFactor == BlendFactor(probe.frame.localTime, probe.crossfade)

\* C23 case: two images, f different from 1 - f; the outgoing image is
\* painted under f instead of 1 - f.
C23_Witness ==
    /\ FadingPainted
    /\ LayerTypes = <<"image", "image">>
    /\ FrameFactor # AlphaOne - FrameFactor
    /\ \E i \in OpsOf(probe.frame, "media", probe.frame.index - 1) :
          probe.frame.ops[i].alpha = FrameFactor

\* C23 second case: an image fading out under a video; the video, the
\* incoming layer, is painted first and the image over it.
C23_IncomingPaintedFirstReached ==
    /\ FadingPainted
    /\ LayerTypes = <<"image", "video">>
    /\ \E i \in OpsOf(probe.frame, "media", probe.frame.index - 1),
          j \in OpsOf(probe.frame, "media", probe.frame.index) : j < i

\* C23 third case: a video fading out under an image; the image, the
\* incoming layer, is painted under 1 - f.
C23_IncomingUnderOutgoingAlphaReached ==
    /\ FadingPainted
    /\ LayerTypes = <<"video", "image">>
    /\ FrameFactor # AlphaOne - FrameFactor
    /\ \E j \in OpsOf(probe.frame, "media", probe.frame.index) :
          probe.frame.ops[j].alpha = AlphaOne - FrameFactor

\* positions in the paint order of the title overlay
TitleOps(frame) == {i \in 1..Len(frame.ops) : frame.ops[i].op = "title"}

\* C24: in a rendered frame with the title shown, the title overlay is
\* painted once, after every media and caption paint of the frame.
C24_TitlePaintedLast ==
    (Rendered /\ probe.titled) =>
        /\ Cardinality(TitleOps(probe.frame)) = 1
        /\ \A i \in TitleOps(probe.frame), j \in ClipOps(probe.frame) : j < i

\* C24, the paints made while drawClip is called: the media of a ready
\* video precedes the title.
C24_VideoBeforeTitle ==
    (Rendered /\ probe.titled) =>
        /\ Cardinality(TitleOps(probe.frame)) = 1
        /\ \A c \in 1..Len(probe.frame.calls) :
              LET clipIndex == probe.frame.calls[c].clipIndex
              IN  FindLib(library, timeline[clipIndex + 1].libId).type = "video" =>
                     \A i \in TitleOps(probe.frame),
                        j \in OpsOf(probe.frame, "media", clipIndex) : j < i

\* C24 case: a frame of one image with a caption, not fading; the title is
\* the first paint, the image and the caption are painted over it.
C24_Witness ==
    /\ Rendered
    /\ probe.titled
    /\ ~probe.frame.fading
    /\ Len(probe.frame.ops) = 3
    /\ probe.frame.ops[1].op = "title"
    /\ probe.frame.ops[2].op = "media"
    /\ probe.frame.ops[3].op = "caption"

\* positions in the paint order of the caption paints
CaptionOps(frame) == {i \in 1..Len(frame.ops) : frame.ops[i].op = "caption"}

\* C25: every caption is painted at full opacity, in a fading frame too.
C25_CaptionAtFullOpacity ==
    Rendered =>
        \A i \in CaptionOps(probe.frame) : probe.frame.ops[i].alpha = AlphaOne

\* C25, frames that do not fade: the only layer is drawn under opacity 1 and
\* so is its caption.
C25_CaptionOpaqueOutsideFade ==
    (Rendered /\ ~probe.frame.fading) =>
        \A i \in CaptionOps(probe.frame) : probe.frame.ops[i].alpha = AlphaOne

\* C25 case: a fading frame of two ready videos with captions; the caption
\* of the incoming video is painted under less than full opacity.
C25_Witness ==
    /\ FadingPainted
    /\ LayerTypes = <<"video", "video">>
    /\ \E i \in OpsOf(probe.frame, "caption", probe.frame.index) :
          probe.frame.ops[i].alpha < AlphaOne

----------------------------------------------------------------------------
(* Scheduling claims, under Spec *)

\* C26: in every state at most one tick callback is pending, and it is the
\* one rafRef.current names, requested for the current totalDuration and
\* anchored at the current progress while isPlaying is true (the callback
\* of the last run of the playback effect, not one of an earlier run); a
\* callback an effect cleanup cancelled is no longer
\* pending, so the tick that runs is always the last one requested, and it
\* runs alone: its step takes it off the scheduler before anything else
\* happens.
C26_OneTickPending ==
    /\ [](/\ Cardinality(rafPending) <= 1
          /\ \A cb \in rafPending :
                /\ cb.id = rafRef
                /\ cb.total = totalDuration
                /\ cb.startedAt = 0 - progress
                /\ isPlaying)
    /\ [][\A cb \in rafPending, now \in FrameDeltas :
            (Tick(cb, now) \/ \E fault \in Faults : TickFault(cb, now, fault)) =>
               /\ rafPending = {cb}
               /\ cb.id = rafRef
               /\ \A next \in rafPending' : next # cb \/ isPlaying']_vars

\* C26 witness: playback was resumed past 0 after a pause; exactly one
\* callback is pending, requested by the resumed clock.
C26_Witness ==
    /\ isPlaying
    /\ progress > 0
    /\ lastOp.name = "play"
    /\ lastOp.progress = progress
    /\ rafPending = {[id |-> rafRef, startedAt |-> 0 - progress,
                      total |-> totalDuration]}

\* C26 second case: a recording was started while playback ran; the callback
\* of the old clock was cancelled and one callback anchored at 0 is pending.
C26_RestartedByRecordingReached ==
    /\ lastOp.name = "startRecording"
    /\ lastOp.isPlaying
    /\ lastOp.progress > 0
    /\ isPlaying
    /\ progress = 0
    /\ rafPending = {[id |-> rafRef, startedAt |-> 0, total |-> totalDuration]}

----------------------------------------------------------------------------
(* Artifact claims, under SpecRec *)

\* the stop event of encoder i is being delivered
StopEventOf(i) ==
    /\ recorders[i].events = <<"stop">>
    /\ RecorderEvent(i, 0)

\* C27: the stop event of a pass's encoder finalizes exactly one artifact,
\* made of chunks that this encoder delivered and of no other, whatever
\* startRecording and stopRecording calls came between stopRecording and
\* the encoder's data and stop events.
C27_ArtifactOfOwnPass ==
    [][\A i \in 1..Len(recorders) :
          StopEventOf(i) =>
             /\ Len(artifacts') = Len(artifacts) + 1
             /\ \A k \in 1..Len(artifacts'[Len(artifacts')]) :
                   artifacts'[Len(artifacts')][k] = i]_vars

\* C27, what the stop event does: it finalizes one artifact, whose content
\* is the shared buffer as it is at that moment, and leaves the buffer as it
\* is.
C27_OneArtifactPerStopEvent ==
    [][\A i \in 1..Len(recorders) :
          StopEventOf(i) =>
             /\ artifacts' = Append(artifacts, recordedChunks)
             /\ recordedChunks' = recordedChunks]_vars

\* C27 case: a second pass was started after stopRecording of the first and
\* before the first encoder delivered its data; the chunk of the first pass
\* is in the artifact of the first pass and again in the artifact of the
\* second.
C27_Witness ==
    /\ Len(recorders) = 2
    /\ artifacts = <<(<<1>>), (<<1, 2>>)>>

----------------------------------------------------------------------------
(* Reachable timelines, under Spec *)

\* the times activeIndexAt is looked at in a state: before 0, at 0, at the
\* playhead, at each entry's accumulated end and one unit to either side
LookupTimes ==
    {0 - Eps, 0, progress}
    \cup UNION {{EffectiveSum(n) - Eps, EffectiveSum(n), EffectiveSum(n) + Eps} :
                   n \in 0..Len(timeline)}

\* C28: in every reachable state every timeline entry resolves to a library
\* item, totalDuration is the sum of the durations activeIndexAt counts, and
\* activeIndexAt(t) finds an entry exactly when 0 <= t < totalDuration.
C28_ResolvedAndFound ==
    /\ Resolved
    /\ totalDuration = EffectiveSum(Len(timeline))
    /\ \A t \in LookupTimes :
          activeIndexAt(t).index >= 0 <=> (0 <= t /\ t < totalDuration)

\* C28, the part about the reachable states: the library only grows, every
\* entry resolves, both functions count the same duration for every entry,
\* and for t >= 0 activeIndexAt(t) finds an entry exactly when
\* t < totalDuration, with localTime inside that entry.
C28_ResolvedAndFoundFromZero ==
    /\ [](/\ Resolved
          /\ totalDuration = EffectiveSum(Len(timeline))
          /\ \A t \in LookupTimes :
                t >= 0 =>
                   LET a == activeIndexAt(t)
                   IN  /\ a.index >= 0 <=> t < totalDuration
                       /\ a.index >= 0 =>
                             /\ a.index < Len(timeline)
                             /\ a.localTime = t - EffectiveSum(a.index)
                             /\ a.localTime >= 0
                             /\ a.localTime < EffectiveDuration(timeline[a.index + 1]))
    /\ [][/\ Len(library') >= Len(library)
          /\ SubSeq(library', 1, Len(library)) = library]_vars

\* C28 case: a reachable state with an image and a video on the timeline,
\* where activeIndexAt finds entry 0 for a time before 0.
C28_Witness ==
    /\ Len(timeline) = 2
    /\ Resolved
    /\ FindLib(library, timeline[1].libId).type # FindLib(library, timeline[2].libId).type
    /\ activeIndexAt(0 - Eps).index = 0
    /\ activeIndexAt(0 - Eps).localTime = 0 - Eps

\* ---------------------------------------------------------------------------
\* Caption edits during playback and recording: timelines over one image and
\* one video, played, paused, recorded and captioned in any order
InitCaption ==
    /\ library = <<ImageItem(1), VideoItem(2, 6000)>>
    /\ timeline \in RenderTimelines
    /\ nextClipId = Len(timeline)
    /\ isPlaying = FALSE
    /\ progress = 0
    /\ recState = "idle"
    /\ draggedItem = 0
    /\ rafPending = {}
    /\ rafRef = 0
    /\ recorders = <<>>
    /\ mediaRecorderRef = 0
    /\ recordedChunks = <<>>
    /\ artifacts = <<>>
    /\ lastOp = NoOp
    /\ probe = NoProbe
    /\ lastRender = [t |-> 0, n |-> 1]
    /\ imageLoader = NoLoads
    /\ ingests = <<>>

NextCaption ==
    \/ TogglePlay
    \/ TickStep
    \/ (Len(recorders) < MaxPasses /\ startRecording)
    \/ stopRecording
    \/ \E id \in ClipIds, text \in Captions : SetCaption(id, text)

SpecCaption == InitCaption /\ [][NextCaption]_vars

\* ---------------------------------------------------------------------------
\* C29: a reorder drop never adds, loses or duplicates entries: the timeline
\* after the drop is a permutation of the one before in which the entries
\* other than the dragged one keep their relative order, totalDuration is
\* unchanged, and a drop whose dragged id is not in the timeline leaves the
\* timeline unchanged.
Occurrences(tl, e) == Cardinality({i \in 1..Len(tl) : tl[i] = e})

PermutationOf(a, b) ==
    /\ Len(a) = Len(b)
    /\ \A i \in 1..Len(b) : Occurrences(a, b[i]) = Occurrences(b, b[i])

Others(tl, dragged) == SelectSeq(tl, LAMBDA c : c.id # dragged)

C29_DropPermutes ==
    [][(\E k \in 0..Len(timeline) : DropAt(k)) =>
          /\ PermutationOf(timeline', timeline)
          /\ Others(timeline', draggedItem) = Others(timeline, draggedItem)
          /\ totalDuration' = totalDuration
          /\ (FindIndex(timeline, draggedItem) = -1 => timeline' = timeline)]_vars

\* a drop that moved the first of three entries of different durations to the end
C29_Witness ==
    /\ lastOp.name = "rowDrop"
    /\ lastOp.from = 0
    /\ lastOp.to = 3
    /\ [i \in 1..Len(timeline) |-> timeline[i].id] = <<2, 3, 1>>
    /\ timeline[1].duration # timeline[3].duration

\* a drop of an id whose entry is gone
C29_AbsentIdDroppedReached ==
    /\ lastOp.name = "rowDrop"
    /\ lastOp.from = -1
    /\ Len(timeline) > 1

\* ---------------------------------------------------------------------------
\* C30: editing the caption of one timeline entry changes only that entry's
\* caption: the order of the entries, every entry's duration and libId,
\* totalDuration, isPlaying, recState and the stored progress are unchanged,
\* in every state in which the edit can occur (playing, paused mid-timeline,
\* or stopped at the end).
SetCaptionStep == \E id \in ClipIds, text \in Captions : SetCaption(id, text)

CaptionOnly ==
    /\ Len(timeline') = Len(timeline)
    /\ \A i \in 1..Len(timeline) :
          timeline'[i] = [timeline[i] EXCEPT !.caption = timeline'[i].caption]
    /\ Cardinality({i \in 1..Len(timeline) : timeline'[i] # timeline[i]}) <= 1
    /\ totalDuration' = totalDuration
    /\ isPlaying' = isPlaying
    /\ recState' = recState

C30_CaptionEditKeepsProgress ==
    [][SetCaptionStep => CaptionOnly /\ progress' = progress]_vars

\* what the code guarantees: everything but the playhead is kept, and the
\* playhead is kept unless it stands within Eps of the end, where it rewinds
C30_CaptionEditKeepsRest ==
    [][SetCaptionStep =>
          /\ CaptionOnly
          /\ progress' = IF progress >= totalDuration - Eps THEN 0 ELSE progress]_vars

\* a caption edit made while stopped at the end has moved the playhead to 0
C30_Witness ==
    /\ lastOp.name = "setCaption"
    /\ ~lastOp.isPlaying
    /\ lastOp.progress = totalDuration
    /\ progress = 0

\* a caption edit made during a recording pass, one frame before the end, has
\* moved the playhead to 0 with playback and recording still on
C30_RewoundWhileRecordingReached ==
    /\ lastOp.name = "setCaption"
    /\ lastOp.isPlaying /\ isPlaying
    /\ lastOp.recState = "recording" /\ recState = "recording"
    /\ lastOp.progress = totalDuration - Eps
    /\ progress = 0

=============================================================================
